---- MODULE Spec2Model ----
(***************************************************************************)
(* The "get_peers" message layer of bip_dht (GetPeersRequest and           *)
(* GetPeersResponse: construction, parsing from a bencode dictionary and   *)
(* encoding) and the slice iterators of bip_metainfo (Files, Pieces,       *)
(* Paths).                                                                 *)
(*                                                                         *)
(* A byte string is a sequence of integers 0..255.  A Bencode value is a   *)
(* record [type, val]: type "bytes" with val the byte string, type "list"  *)
(* with val a sequence of Bencode values, type "dict" with val a function  *)
(* from key strings to Bencode values, type "int" (its number is never     *)
(* read by this layer, val is the empty sequence).  A DhtResult is a       *)
(* record [ok, err, val]: Ok(v) or Err(kind).  An Option is [some, val].   *)
(*                                                                         *)
(* encode() builds a Bencode dictionary and hands it to bip_bencode to     *)
(* serialise; the model keeps the dictionary that is serialised, and the   *)
(* receiving side is handed the arguments sub-dictionary and "t" of it.    *)
(***************************************************************************)
EXTENDS Integers, Sequences, FiniteSets, TLC

VARIABLES op, args, rqst, rsp, wire, root, parsed,
          files, files_index, files_ret,
          pieces, pieces_index, pieces_ret,
          paths, paths_index, paths_ret

dhtVars == <<op, args, rqst, rsp, wire, root, parsed>>
iterVars == <<files, files_index, files_ret, pieces, pieces_index, pieces_ret,
              paths, paths_index, paths_ret>>
vars == <<op, args, rqst, rsp, wire, root, parsed,
          files, files_index, files_ret, pieces, pieces_index, pieces_ret,
          paths, paths_index, paths_ret>>

----------------------------------------------------------------------------
(* Bounds of the model *)

\* most 26-byte records in a "nodes" byte string
MaxRecords == 2
\* most entries in a "values" list
MaxValues == 2
\* longest slice handed to a metainfo iterator
MaxSlice == 3
\* most next() calls made after an iterator is exhausted
MaxExtraCalls == 2

----------------------------------------------------------------------------
(* Wire keys and widths (message.rs, request.rs, response.rs, compact_info.rs,
   bip_util: named by get_peers.rs, valued by the wire format) *)

TRANSACTION_ID_KEY == "t"
MESSAGE_TYPE_KEY == "y"
REQUEST_TYPE_KEY == "q"
RESPONSE_TYPE_KEY == "r"
GET_PEERS_TYPE_KEY == "get_peers"
REQUEST_ARGS_KEY == "a"
RESPONSE_ARGS_KEY == "r"
NODE_ID_KEY == "id"
INFO_HASH_KEY == "info_hash"
TOKEN_KEY == "token"
NODES_KEY == "nodes"
VALUES_KEY == "values"

NODE_ID_LEN == 20
BYTES_PER_COMPACT_NODE_INFO == 26
BYTES_PER_COMPACT_IP_INFO == 6

----------------------------------------------------------------------------
(* Values *)

Ok(v) == [ok |-> TRUE, err |-> "", val |-> v]
Err(kind) == [ok |-> FALSE, err |-> kind, val |-> <<>>]
NoResult == [ok |-> FALSE, err |-> "none", val |-> <<>>]

Some(b) == [some |-> TRUE, val |-> b]
None == [some |-> FALSE, val |-> <<>>]

BenBytes(b) == [type |-> "bytes", val |-> b]
BenList(l) == [type |-> "list", val |-> l]
BenDict(d) == [type |-> "dict", val |-> d]
BenInt == [type |-> "int", val |-> <<>>]
\* a key the sender left out of the dictionary
Absent == [type |-> "absent", val |-> <<>>]

\* the dictionary holding the keys of f that are not left out
Dict(f) == [k \in {x \in DOMAIN f : f[x].type # "absent"} |-> f[k]]

\* the bytes of an ASCII key
AsBytes(s) ==
    CASE s = "q" -> <<113>>
      [] s = "r" -> <<114>>
      [] s = "get_peers" -> <<103, 101, 116, 95, 112, 101, 101, 114, 115>>

----------------------------------------------------------------------------
(* Validation helper (RequestValidate / ResponseValidate) *)

lookup_and_convert_bytes(dict, key) ==
    IF key \notin DOMAIN dict THEN Err("MissingKey")
    ELSE IF dict[key].type # "bytes" THEN Err("WrongType")
    ELSE Ok(dict[key].val)

lookup_and_convert_list(dict, key) ==
    IF key \notin DOMAIN dict THEN Err("MissingKey")
    ELSE IF dict[key].type # "list" THEN Err("WrongType")
    ELSE Ok(dict[key].val)

validate_node_id(bytes) ==
    IF Len(bytes) = NODE_ID_LEN THEN Ok(bytes)
    ELSE Err("InvalidIdentifierLength")

validate_nodes(bytes) ==
    IF Len(bytes) % BYTES_PER_COMPACT_NODE_INFO = 0 THEN Ok(bytes)
    ELSE Err("InvalidNodesEncoding")

validate_values(list) ==
    IF \A i \in 1..Len(list) :
           /\ list[i].type = "bytes"
           /\ Len(list[i].val) = BYTES_PER_COMPACT_IP_INFO
    THEN Ok(list)
    ELSE Err("InvalidValueEncoding")

\* CompactNodeInfo: the number of records the view holds
NodeRecords(nodes) == Len(nodes) \div BYTES_PER_COMPACT_NODE_INFO

----------------------------------------------------------------------------
(* GetPeersRequest *)

\* variant of GetPeersRequest_new that checks the node id twice and the info
\* hash never; C2 tells it from the code
GetPeersRequest_new_hash_unchecked(trans_id, node_id, info_hash) ==
    LET v1 == validate_node_id(node_id)
        v2 == validate_node_id(node_id)
    IN  IF ~v1.ok THEN Err(v1.err)
        ELSE IF ~v2.ok THEN Err(v2.err)
        ELSE Ok([trans_id |-> trans_id, node_id |-> node_id,
                 info_hash |-> info_hash])

GetPeersRequest_new(trans_id, node_id, info_hash) ==
    LET v1 == validate_node_id(node_id)
        v2 == validate_node_id(info_hash)
    IN  IF ~v1.ok THEN Err(v1.err)
        ELSE IF ~v2.ok THEN Err(v2.err)
        ELSE Ok([trans_id |-> trans_id, node_id |-> node_id,
                 info_hash |-> info_hash])

GetPeersRequest_from_parts(rqst_root, trans_id) ==
    LET node_id == lookup_and_convert_bytes(rqst_root, NODE_ID_KEY)
        info_hash == lookup_and_convert_bytes(rqst_root, INFO_HASH_KEY)
    IN  IF ~node_id.ok THEN Err(node_id.err)
        ELSE IF ~info_hash.ok THEN Err(info_hash.err)
        ELSE GetPeersRequest_new(trans_id, node_id.val, info_hash.val)

\* variant of GetPeersRequest_encode that writes the two identifiers under
\* each other's key; C1 tells it from the code
GetPeersRequest_encode_swapped(self) ==
    (TRANSACTION_ID_KEY :> BenBytes(self.trans_id)) @@
    (MESSAGE_TYPE_KEY :> BenBytes(AsBytes(REQUEST_TYPE_KEY))) @@
    (REQUEST_TYPE_KEY :> BenBytes(AsBytes(GET_PEERS_TYPE_KEY))) @@
    (REQUEST_ARGS_KEY :> BenDict(
        (NODE_ID_KEY :> BenBytes(self.info_hash)) @@
        (INFO_HASH_KEY :> BenBytes(self.node_id))))

GetPeersRequest_encode(self) ==
    (TRANSACTION_ID_KEY :> BenBytes(self.trans_id)) @@
    (MESSAGE_TYPE_KEY :> BenBytes(AsBytes(REQUEST_TYPE_KEY))) @@
    (REQUEST_TYPE_KEY :> BenBytes(AsBytes(GET_PEERS_TYPE_KEY))) @@
    (REQUEST_ARGS_KEY :> BenDict(
        (NODE_ID_KEY :> BenBytes(self.node_id)) @@
        (INFO_HASH_KEY :> BenBytes(self.info_hash))))

----------------------------------------------------------------------------
(* CompactInfoType and GetPeersResponse *)

Nodes(n) == [kind |-> "Nodes", nodes |-> n, values |-> <<>>]
Values(v) == [kind |-> "Values", nodes |-> <<>>, values |-> v]
Both(n, v) == [kind |-> "Both", nodes |-> n, values |-> v]

GetPeersResponse_new(trans_id, node_id, token, info_type) ==
    LET v1 == validate_node_id(node_id)
    IN  IF ~v1.ok THEN Err(v1.err)
        ELSE Ok([trans_id |-> trans_id, node_id |-> node_id,
                 token |-> token, info_type |-> info_type])

\* variant of ResolveInfoType whose last arm yields an empty node list
\* instead of InvalidResponse; C3 tells it from the code
ResolveInfoType_empty_default(maybe_nodes, maybe_values) ==
    IF maybe_nodes.ok /\ maybe_values.ok THEN
        LET nodes_info == validate_nodes(maybe_nodes.val)
            values_info == validate_values(maybe_values.val)
        IN  IF ~nodes_info.ok THEN Err(nodes_info.err)
            ELSE IF ~values_info.ok THEN Err(values_info.err)
            ELSE Ok(Both(nodes_info.val, values_info.val))
    ELSE IF maybe_nodes.ok THEN
        LET nodes_info == validate_nodes(maybe_nodes.val)
        IN  IF ~nodes_info.ok THEN Err(nodes_info.err)
            ELSE Ok(Nodes(nodes_info.val))
    ELSE IF maybe_values.ok THEN
        LET values_info == validate_values(maybe_values.val)
        IN  IF ~values_info.ok THEN Err(values_info.err)
            ELSE Ok(Values(values_info.val))
    ELSE Ok(Nodes(<<>>))

\* variant of ResolveInfoType whose Nodes arm takes the bytes unvalidated;
\* C4 tells it from the code
ResolveInfoType_nodes_unchecked(maybe_nodes, maybe_values) ==
    IF maybe_nodes.ok /\ maybe_values.ok THEN
        LET nodes_info == validate_nodes(maybe_nodes.val)
            values_info == validate_values(maybe_values.val)
        IN  IF ~nodes_info.ok THEN Err(nodes_info.err)
            ELSE IF ~values_info.ok THEN Err(values_info.err)
            ELSE Ok(Both(nodes_info.val, values_info.val))
    ELSE IF maybe_nodes.ok THEN Ok(Nodes(maybe_nodes.val))
    ELSE IF maybe_values.ok THEN
        LET values_info == validate_values(maybe_values.val)
        IN  IF ~values_info.ok THEN Err(values_info.err)
            ELSE Ok(Values(values_info.val))
    ELSE Err("InvalidResponse")

\* variant of ResolveInfoType whose Both arm takes the list unvalidated;
\* C5 tells it from the code
ResolveInfoType_values_unchecked(maybe_nodes, maybe_values) ==
    IF maybe_nodes.ok /\ maybe_values.ok THEN
        LET nodes_info == validate_nodes(maybe_nodes.val)
        IN  IF ~nodes_info.ok THEN Err(nodes_info.err)
            ELSE Ok(Both(nodes_info.val, maybe_values.val))
    ELSE IF maybe_nodes.ok THEN
        LET nodes_info == validate_nodes(maybe_nodes.val)
        IN  IF ~nodes_info.ok THEN Err(nodes_info.err)
            ELSE Ok(Nodes(nodes_info.val))
    ELSE IF maybe_values.ok THEN
        LET values_info == validate_values(maybe_values.val)
        IN  IF ~values_info.ok THEN Err(values_info.err)
            ELSE Ok(Values(values_info.val))
    ELSE Err("InvalidResponse")

\* the match on (maybe_nodes, maybe_values)
ResolveInfoType(maybe_nodes, maybe_values) ==
    IF maybe_nodes.ok /\ maybe_values.ok THEN
        LET nodes_info == validate_nodes(maybe_nodes.val)
            values_info == validate_values(maybe_values.val)
        IN  IF ~nodes_info.ok THEN Err(nodes_info.err)
            ELSE IF ~values_info.ok THEN Err(values_info.err)
            ELSE Ok(Both(nodes_info.val, values_info.val))
    ELSE IF maybe_nodes.ok THEN
        LET nodes_info == validate_nodes(maybe_nodes.val)
        IN  IF ~nodes_info.ok THEN Err(nodes_info.err)
            ELSE Ok(Nodes(nodes_info.val))
    ELSE IF maybe_values.ok THEN
        LET values_info == validate_values(maybe_values.val)
        IN  IF ~values_info.ok THEN Err(values_info.err)
            ELSE Ok(Values(values_info.val))
    ELSE Err("InvalidResponse")

\* variant of GetPeersResponse_from_parts that checks the id's length as
\* soon as it is looked up; C9 tells it from the code
GetPeersResponse_from_parts_id_first(rsp_root, trans_id) ==
    LET node_id == lookup_and_convert_bytes(rsp_root, NODE_ID_KEY)
        tok == lookup_and_convert_bytes(rsp_root, TOKEN_KEY)
        token == IF tok.ok THEN Some(tok.val) ELSE None
        maybe_nodes == lookup_and_convert_bytes(rsp_root, NODES_KEY)
        maybe_values == lookup_and_convert_list(rsp_root, VALUES_KEY)
        info_type == ResolveInfoType(maybe_nodes, maybe_values)
    IN  IF ~node_id.ok THEN Err(node_id.err)
        ELSE IF ~validate_node_id(node_id.val).ok
            THEN Err(validate_node_id(node_id.val).err)
        ELSE IF ~info_type.ok THEN Err(info_type.err)
        ELSE GetPeersResponse_new(trans_id, node_id.val, token, info_type.val)

GetPeersResponse_from_parts(rsp_root, trans_id) ==
    LET node_id == lookup_and_convert_bytes(rsp_root, NODE_ID_KEY)
        tok == lookup_and_convert_bytes(rsp_root, TOKEN_KEY)
        token == IF tok.ok THEN Some(tok.val) ELSE None
        maybe_nodes == lookup_and_convert_bytes(rsp_root, NODES_KEY)
        maybe_values == lookup_and_convert_list(rsp_root, VALUES_KEY)
        info_type == ResolveInfoType(maybe_nodes, maybe_values)
    IN  IF ~node_id.ok THEN Err(node_id.err)
        ELSE IF ~info_type.ok THEN Err(info_type.err)
        ELSE GetPeersResponse_new(trans_id, node_id.val, token, info_type.val)

\* variant of ResponseArgs that leaves an empty token out; C7 tells it from
\* the code
ResponseArgs_empty_token_dropped(self) ==
    Dict((NODE_ID_KEY :> BenBytes(self.node_id)) @@
         (TOKEN_KEY :> IF self.token.some /\ self.token.val # <<>>
                       THEN BenBytes(self.token.val) ELSE Absent) @@
         (NODES_KEY :> IF self.info_type.kind \in {"Nodes", "Both"}
                       THEN BenBytes(self.info_type.nodes) ELSE Absent) @@
         (VALUES_KEY :> IF self.info_type.kind \in {"Values", "Both"}
                        THEN BenList(self.info_type.values) ELSE Absent))

\* variant of ResponseArgs whose Both arm writes "nodes" only; C8 tells it
\* from the code
ResponseArgs_both_without_values(self) ==
    Dict((NODE_ID_KEY :> BenBytes(self.node_id)) @@
         (TOKEN_KEY :> IF self.token.some THEN BenBytes(self.token.val)
                       ELSE Absent) @@
         (NODES_KEY :> IF self.info_type.kind \in {"Nodes", "Both"}
                       THEN BenBytes(self.info_type.nodes) ELSE Absent) @@
         (VALUES_KEY :> IF self.info_type.kind \in {"Values"}
                        THEN BenList(self.info_type.values) ELSE Absent))

\* the response_args BTreeMap
ResponseArgs(self) ==
    Dict((NODE_ID_KEY :> BenBytes(self.node_id)) @@
         (TOKEN_KEY :> IF self.token.some THEN BenBytes(self.token.val)
                       ELSE Absent) @@
         (NODES_KEY :> IF self.info_type.kind \in {"Nodes", "Both"}
                       THEN BenBytes(self.info_type.nodes) ELSE Absent) @@
         (VALUES_KEY :> IF self.info_type.kind \in {"Values", "Both"}
                        THEN BenList(self.info_type.values) ELSE Absent))

GetPeersResponse_encode(self) ==
    (TRANSACTION_ID_KEY :> BenBytes(self.trans_id)) @@
    (MESSAGE_TYPE_KEY :> BenBytes(AsBytes(RESPONSE_TYPE_KEY))) @@
    (REQUEST_TYPE_KEY :> BenBytes(AsBytes(GET_PEERS_TYPE_KEY))) @@
    (RESPONSE_ARGS_KEY :> BenDict(ResponseArgs(self)))

----------------------------------------------------------------------------
(* Inputs the callers and the network supply *)

Fill(b, n) == [i \in 1..n |-> b]
Ramp(n) == [i \in 1..n |-> i]

TransIds == {<<97, 97>>, <<>>}

\* identifier lengths around the required one, and the empty identifier
IdLens == {0, NODE_ID_LEN - 1, NODE_ID_LEN, NODE_ID_LEN + 1}
Ids == {Fill(17, n) : n \in IdLens} \cup {Fill(34, n) : n \in IdLens}
           \cup {Ramp(NODE_ID_LEN)}

Tokens == {None, Some(<<>>), Some(<<1, 2, 3>>)}

\* "nodes" byte strings: k whole records, one byte short, one byte over
NodesLens == {n \in {k * BYTES_PER_COMPACT_NODE_INFO + d :
                        k \in 0..MaxRecords, d \in {-1, 0, 1}} : n >= 0}
NodesStrings == {Ramp(n) : n \in NodesLens}
ValidNodes == {b \in NodesStrings : validate_nodes(b).ok}

\* entries of a "values" list: two well-formed peers, a short one, a long one
\* and one that is no byte string
GoodValue == {BenBytes(Fill(7, BYTES_PER_COMPACT_IP_INFO)),
              BenBytes(Ramp(BYTES_PER_COMPACT_IP_INFO))}
BadValue == {BenBytes(Ramp(BYTES_PER_COMPACT_IP_INFO - 1)),
             BenBytes(Ramp(BYTES_PER_COMPACT_IP_INFO + 1)),
             BenInt}
SeqsUpTo(S, n) == UNION {[1..k -> S] : k \in 0..n}
ValueLists == SeqsUpTo(GoodValue \cup BadValue, MaxValues)
ValidValues == SeqsUpTo(GoodValue, MaxValues)

\* CompactInfoType values a caller can hold: CompactNodeInfo and
\* CompactValueInfo exist only over validated data
InfoTypes == {Nodes(n) : n \in ValidNodes} \cup {Values(v) : v \in ValidValues}
                 \cup {Both(n, v) : n \in ValidNodes, v \in ValidValues}

\* what a received dictionary may hold under each key
IdFields == {Absent, BenInt} \cup {BenBytes(b) : b \in Ids}
TokenFields == {Absent, BenInt, BenBytes(<<>>), BenBytes(<<1, 2, 3>>)}
NodesFields == {Absent, BenList(<<>>)} \cup {BenBytes(b) : b \in NodesStrings}
ValuesFields == {Absent, BenBytes(<<>>)} \cup {BenList(l) : l \in ValueLists}

NoWire == [present |-> FALSE, msg |-> <<>>]
NoRoot == [present |-> FALSE, from_wire |-> FALSE, dict |-> <<>>, tid |-> <<>>]
NoArgs == [trans_id |-> <<>>, node_id |-> <<>>, info_hash |-> <<>>,
           token |-> None, info_type |-> Nodes(<<>>)]

----------------------------------------------------------------------------
(* The message layer driven one message at a time: a caller builds a message
   with new() and encodes it, a receiver parses the arguments dictionary of
   an encoded message or of any dictionary the network delivers; the values
   are then dropped and the next message is handled. *)

InitDht ==
    /\ op = "none"
    /\ args = NoArgs
    /\ rqst = NoResult
    /\ rsp = NoResult
    /\ wire = NoWire
    /\ root = NoRoot
    /\ parsed = NoResult

\* the borrowed values go out of scope
Drop ==
    /\ op # "none"
    /\ op' = "none"
    /\ args' = NoArgs
    /\ rqst' = NoResult
    /\ rsp' = NoResult
    /\ wire' = NoWire
    /\ root' = NoRoot
    /\ parsed' = NoResult
    /\ UNCHANGED iterVars

RqstNew ==
    /\ op = "none"
    /\ \E trans_id \in TransIds, node_id \in Ids, info_hash \in Ids :
        /\ op' = "rqst_new"
        /\ args' = [NoArgs EXCEPT !.trans_id = trans_id, !.node_id = node_id,
                                  !.info_hash = info_hash]
        /\ rqst' = GetPeersRequest_new(trans_id, node_id, info_hash)
        /\ rsp' = NoResult
        /\ wire' = NoWire
        /\ root' = NoRoot
        /\ parsed' = NoResult
        /\ UNCHANGED iterVars

RqstEncode ==
    /\ op = "rqst_new"
    /\ rqst.ok
    /\ op' = "rqst_encode"
    /\ wire' = [present |-> TRUE, msg |-> GetPeersRequest_encode(rqst.val)]
    /\ UNCHANGED <<args, rqst, rsp, root, parsed>>
    /\ UNCHANGED iterVars

\* the receiver of an encoded request parses its "a" dictionary with its "t"
RqstFromWire ==
    /\ op = "rqst_encode"
    /\ wire.present
    /\ op' = "rqst_from_parts"
    /\ root' = [present |-> TRUE, from_wire |-> TRUE,
                dict |-> wire.msg[REQUEST_ARGS_KEY].val,
                tid |-> wire.msg[TRANSACTION_ID_KEY].val]
    /\ parsed' = GetPeersRequest_from_parts(root'.dict, root'.tid)
    /\ UNCHANGED <<args, rqst, rsp, wire>>
    /\ UNCHANGED iterVars

\* the receiver parses a dictionary the network delivered
RqstFromNet ==
    /\ op = "none"
    /\ \E trans_id \in TransIds, id \in IdFields, info_hash \in IdFields :
        /\ op' = "rqst_from_parts"
        /\ root' = [present |-> TRUE, from_wire |-> FALSE,
                    dict |-> Dict((NODE_ID_KEY :> id) @@ (INFO_HASH_KEY :> info_hash)),
                    tid |-> trans_id]
        /\ parsed' = GetPeersRequest_from_parts(root'.dict, root'.tid)
        /\ args' = NoArgs
        /\ rqst' = NoResult
        /\ rsp' = NoResult
        /\ wire' = NoWire
        /\ UNCHANGED iterVars

RspNew ==
    /\ op = "none"
    /\ \E trans_id \in TransIds, node_id \in Ids, token \in Tokens,
          info_type \in InfoTypes :
        /\ op' = "rsp_new"
        /\ args' = [NoArgs EXCEPT !.trans_id = trans_id, !.node_id = node_id,
                                  !.token = token, !.info_type = info_type]
        /\ rsp' = GetPeersResponse_new(trans_id, node_id, token, info_type)
        /\ rqst' = NoResult
        /\ wire' = NoWire
        /\ root' = NoRoot
        /\ parsed' = NoResult
        /\ UNCHANGED iterVars

RspEncode ==
    /\ op = "rsp_new"
    /\ rsp.ok
    /\ op' = "rsp_encode"
    /\ wire' = [present |-> TRUE, msg |-> GetPeersResponse_encode(rsp.val)]
    /\ UNCHANGED <<args, rqst, rsp, root, parsed>>
    /\ UNCHANGED iterVars

\* the receiver of an encoded response parses its "r" dictionary with its "t"
RspFromWire ==
    /\ op = "rsp_encode"
    /\ wire.present
    /\ op' = "rsp_from_parts"
    /\ root' = [present |-> TRUE, from_wire |-> TRUE,
                dict |-> wire.msg[RESPONSE_ARGS_KEY].val,
                tid |-> wire.msg[TRANSACTION_ID_KEY].val]
    /\ parsed' = GetPeersResponse_from_parts(root'.dict, root'.tid)
    /\ UNCHANGED <<args, rqst, rsp, wire>>
    /\ UNCHANGED iterVars

RspFromNet ==
    /\ op = "none"
    /\ \E trans_id \in TransIds, id \in IdFields, token \in TokenFields,
          nodes \in NodesFields, values \in ValuesFields :
        /\ op' = "rsp_from_parts"
        /\ root' = [present |-> TRUE, from_wire |-> FALSE,
                    dict |-> Dict((NODE_ID_KEY :> id) @@ (TOKEN_KEY :> token) @@
                                  (NODES_KEY :> nodes) @@ (VALUES_KEY :> values)),
                    tid |-> trans_id]
        /\ parsed' = GetPeersResponse_from_parts(root'.dict, root'.tid)
        /\ args' = NoArgs
        /\ rqst' = NoResult
        /\ rsp' = NoResult
        /\ wire' = NoWire
        /\ UNCHANGED iterVars

----------------------------------------------------------------------------
(* bip_metainfo iterators: a cursor over a borrowed slice.  The slice is
   0-based in the source and 1-based here: slice.get(index) is
   slice[index + 1] when index < Len(slice). *)

Files_next(slice, index) ==
    IF index < Len(slice)
    THEN [index |-> index + 1, ret |-> Some(slice[index + 1])]
    ELSE [index |-> index, ret |-> None]

Pieces_next(slice, index) ==
    IF index < Len(slice)
    THEN [index |-> index + 1, ret |-> Some(slice[index + 1])]
    ELSE [index |-> index, ret |-> None]

\* variant of Paths_next that advances the index on every call; C10 tells it
\* from the code
Paths_next_always_advancing(slice, index) ==
    IF index < Len(slice)
    THEN [index |-> index + 1, ret |-> Some(slice[index + 1])]
    ELSE [index |-> index + 1, ret |-> None]

Paths_next(slice, index) ==
    IF index < Len(slice)
    THEN [index |-> index + 1, ret |-> Some(slice[index + 1])]
    ELSE [index |-> index, ret |-> None]

\* the slices handed to new(): every prefix up to MaxSlice of a sequence
\* that holds one element twice
FileAt(i) == IF i = 3 THEN "file1" ELSE
             IF i = 1 THEN "file1" ELSE IF i = 2 THEN "file2" ELSE "file4"
PieceAt(i) == Fill(IF i = 3 THEN 1 ELSE i, NODE_ID_LEN)
PathAt(i) == IF i = 3 THEN "dir1" ELSE
             IF i = 1 THEN "dir1" ELSE IF i = 2 THEN "dir2" ELSE "name"
FileSlices == {[i \in 1..n |-> FileAt(i)] : n \in 0..MaxSlice}
PieceSlices == {[i \in 1..n |-> PieceAt(i)] : n \in 0..MaxSlice}
PathSlices == {[i \in 1..n |-> PathAt(i)] : n \in 0..MaxSlice}

InitIterIdle ==
    /\ files = <<>> /\ files_index = 0 /\ files_ret = <<>>
    /\ pieces = <<>> /\ pieces_index = 0 /\ pieces_ret = <<>>
    /\ paths = <<>> /\ paths_index = 0 /\ paths_ret = <<>>

\* Files::new, Pieces::new, Paths::new
InitIter ==
    /\ files \in FileSlices /\ files_index = 0 /\ files_ret = <<>>
    /\ pieces \in PieceSlices /\ pieces_index = 0 /\ pieces_ret = <<>>
    /\ paths \in PathSlices /\ paths_index = 0 /\ paths_ret = <<>>

FilesNext ==
    /\ Len(files_ret) < Len(files) + MaxExtraCalls
    /\ files_index' = Files_next(files, files_index).index
    /\ files_ret' = Append(files_ret, Files_next(files, files_index).ret)
    /\ UNCHANGED <<files, pieces, pieces_index, pieces_ret,
                   paths, paths_index, paths_ret>>
    /\ UNCHANGED dhtVars

PiecesNext ==
    /\ Len(pieces_ret) < Len(pieces) + MaxExtraCalls
    /\ pieces_index' = Pieces_next(pieces, pieces_index).index
    /\ pieces_ret' = Append(pieces_ret, Pieces_next(pieces, pieces_index).ret)
    /\ UNCHANGED <<pieces, files, files_index, files_ret,
                   paths, paths_index, paths_ret>>
    /\ UNCHANGED dhtVars

PathsNext ==
    /\ Len(paths_ret) < Len(paths) + MaxExtraCalls
    /\ paths_index' = Paths_next(paths, paths_index).index
    /\ paths_ret' = Append(paths_ret, Paths_next(paths, paths_index).ret)
    /\ UNCHANGED <<paths, files, files_index, files_ret,
                   pieces, pieces_index, pieces_ret>>
    /\ UNCHANGED dhtVars

----------------------------------------------------------------------------
(* Specifications *)

Init == InitDht /\ InitIterIdle

Next ==
    \/ RqstNew
    \/ RqstEncode
    \/ RqstFromWire
    \/ RqstFromNet
    \/ RspNew
    \/ RspEncode
    \/ RspFromWire
    \/ RspFromNet
    \/ Drop

Spec == Init /\ [][Next]_vars

IterInit == InitDht /\ InitIter

IterNext == FilesNext \/ PiecesNext \/ PathsNext

SpecIter == IterInit /\ [][IterNext]_vars

----------------------------------------------------------------------------
(* What a received dictionary holds, read off the dictionary itself *)

Has(d, key, type) == key \in DOMAIN d /\ d[key].type = type
HasOther(d, key, type) == key \in DOMAIN d /\ d[key].type # type

IsPeer(e) == e.type = "bytes" /\ Len(e.val) = 6
BadStride(d) == Has(d, "nodes", "bytes") /\ Len(d["nodes"].val) % 26 # 0
BadEntry(d) ==
    Has(d, "values", "list")
        /\ \E i \in 1..Len(d["values"].val) : ~IsPeer(d["values"].val[i])
IdLen(d) == IF Has(d, "id", "bytes") THEN Len(d["id"].val) ELSE -1

Parsing(kind) == op = kind /\ root.present
Reparsed(kind) == op = kind /\ root.present /\ root.from_wire

GetPeersBytes == <<103, 101, 116, 95, 112, 101, 101, 114, 115>>

----------------------------------------------------------------------------
(* C1 *)

\* C1: a request built by new() from 20-byte identifiers encodes to the
\* dictionary t = trans_id, y = "q", q = "get_peers", a = {id, info_hash},
\* and from_parts on that "a" dictionary gives back the three fields.
C1_RequestRoundTrip ==
    /\ (op = "rqst_new" /\ Len(args.node_id) = 20 /\ Len(args.info_hash) = 20)
           => rqst.ok
    /\ (op \in {"rqst_encode", "rqst_from_parts"} /\ wire.present) =>
           /\ DOMAIN wire.msg = {"t", "y", "q", "a"}
           /\ wire.msg["t"] = BenBytes(args.trans_id)
           /\ wire.msg["y"] = BenBytes(<<113>>)
           /\ wire.msg["q"] = BenBytes(GetPeersBytes)
           /\ wire.msg["a"].type = "dict"
           /\ DOMAIN wire.msg["a"].val = {"id", "info_hash"}
           /\ wire.msg["a"].val["id"] = BenBytes(args.node_id)
           /\ wire.msg["a"].val["info_hash"] = BenBytes(args.info_hash)
    /\ Reparsed("rqst_from_parts") =>
           /\ parsed.ok
           /\ parsed.val.trans_id = args.trans_id
           /\ parsed.val.node_id = args.node_id
           /\ parsed.val.info_hash = args.info_hash

\* the scenario trans_id = "aa", node_id = [0x11; 20], info_hash = [0x22; 20]
C1_Witness ==
    /\ Reparsed("rqst_from_parts")
    /\ parsed.ok
    /\ args.trans_id = <<97, 97>>
    /\ args.node_id = Fill(17, 20)
    /\ args.info_hash = Fill(34, 20)

----------------------------------------------------------------------------
(* C2 *)

\* C2: GetPeersRequest::new, GetPeersRequest::from_parts (both keys present
\* as byte strings) and GetPeersResponse::new succeed exactly when every
\* identifier is 20 bytes long, and fail with InvalidIdentifierLength
\* otherwise, whatever the transaction id, token and payload.
C2_IdentifierLength ==
    /\ op = "rqst_new" =>
           /\ rqst.ok <=> (Len(args.node_id) = 20 /\ Len(args.info_hash) = 20)
           /\ ~rqst.ok => rqst.err = "InvalidIdentifierLength"
    /\ (Parsing("rqst_from_parts") /\ Has(root.dict, "id", "bytes")
            /\ Has(root.dict, "info_hash", "bytes")) =>
           /\ parsed.ok <=> (Len(root.dict["id"].val) = 20
                                /\ Len(root.dict["info_hash"].val) = 20)
           /\ ~parsed.ok => parsed.err = "InvalidIdentifierLength"
    /\ op = "rsp_new" =>
           /\ rsp.ok <=> Len(args.node_id) = 20
           /\ ~rsp.ok => rsp.err = "InvalidIdentifierLength"

\* a request whose node id is right and whose info hash is one byte short
C2_Witness ==
    /\ op = "rqst_new"
    /\ Len(args.node_id) = 20
    /\ Len(args.info_hash) = 19
    /\ ~rqst.ok

----------------------------------------------------------------------------
(* C3 *)

\* C3: the payload of a parsed response is Nodes when only the "nodes" lookup
\* succeeds, Values when only the "values" lookup succeeds, Both when both
\* do, each payload being the dictionary's own; with neither, and an "id"
\* byte string, the parse fails with InvalidResponse.
C3_PayloadShape ==
    Parsing("rsp_from_parts") =>
        LET d == root.dict
            n == Has(d, "nodes", "bytes")
            v == Has(d, "values", "list")
        IN  /\ parsed.ok =>
                /\ parsed.val.info_type.kind =
                       IF n /\ v THEN "Both" ELSE IF n THEN "Nodes"
                       ELSE IF v THEN "Values" ELSE "none"
                /\ n => parsed.val.info_type.nodes = d["nodes"].val
                /\ v => parsed.val.info_type.values = d["values"].val
            /\ (~n /\ ~v /\ Has(d, "id", "bytes")) =>
                   ~parsed.ok /\ parsed.err = "InvalidResponse"
            /\ ((n \/ v) /\ IdLen(d) = 20 /\ ~BadStride(d) /\ ~BadEntry(d))
                   => parsed.ok

\* both keys present and well formed: a Both with two records and two peers
C3_Witness ==
    /\ Parsing("rsp_from_parts")
    /\ ~root.from_wire
    /\ parsed.ok
    /\ parsed.val.info_type.kind = "Both"
    /\ Len(parsed.val.info_type.nodes) = 52
    /\ Len(parsed.val.info_type.values) = 2

----------------------------------------------------------------------------
(* C4 *)

\* C4 as stated: every response dictionary whose "nodes" byte string is not
\* a multiple of 26 long fails with InvalidNodesEncoding, and every one whose
\* "nodes" is 26*k long parses into exactly k records over the same bytes.
C4_Original ==
    (Parsing("rsp_from_parts") /\ Has(root.dict, "nodes", "bytes")) =>
        LET nodes == root.dict["nodes"].val
        IN  IF Len(nodes) % 26 # 0
            THEN ~parsed.ok /\ parsed.err = "InvalidNodesEncoding"
            ELSE /\ parsed.ok
                 /\ parsed.val.info_type.nodes = nodes
                 /\ NodeRecords(parsed.val.info_type.nodes) * 26 = Len(nodes)

\* C4: when "id" is present as a byte string, a "nodes" byte string that is
\* not a multiple of 26 long fails the parse with InvalidNodesEncoding; when
\* furthermore the id is 20 bytes long and "values" is absent, no list or a
\* list of 6-byte strings, a "nodes" byte string 26*k long parses into
\* exactly k records over the same bytes.
C4_NodesStride ==
    (Parsing("rsp_from_parts") /\ Has(root.dict, "nodes", "bytes")
        /\ Has(root.dict, "id", "bytes")) =>
        LET nodes == root.dict["nodes"].val
        IN  /\ Len(nodes) % 26 # 0 =>
                ~parsed.ok /\ parsed.err = "InvalidNodesEncoding"
            /\ (Len(nodes) % 26 = 0 /\ IdLen(root.dict) = 20
                    /\ ~BadEntry(root.dict)) =>
                /\ parsed.ok
                /\ parsed.val.info_type.kind \in {"Nodes", "Both"}
                /\ parsed.val.info_type.nodes = nodes
                /\ NodeRecords(parsed.val.info_type.nodes) * 26 = Len(nodes)

\* a wrong-length id and a "nodes" string one byte over two records
C4_Witness ==
    /\ Parsing("rsp_from_parts")
    /\ Has(root.dict, "id", "bytes")
    /\ IdLen(root.dict) = 19
    /\ Has(root.dict, "nodes", "bytes")
    /\ Len(root.dict["nodes"].val) = 53
    /\ parsed.err = "InvalidNodesEncoding"

----------------------------------------------------------------------------
(* C5 *)

\* C5 as stated: every response dictionary whose "values" list holds an
\* entry that is no 6-byte string fails with InvalidValueEncoding, whether
\* or not "nodes" is present.
C5_Original ==
    (Parsing("rsp_from_parts") /\ BadEntry(root.dict)) =>
        ~parsed.ok /\ parsed.err = "InvalidValueEncoding"

\* C5: when "id" is present as a byte string and "nodes" is absent, no byte
\* string or a byte string a multiple of 26 long, a "values" list holding an
\* entry that is no 6-byte string fails the parse with InvalidValueEncoding.
C5_ValuesEntry ==
    (Parsing("rsp_from_parts") /\ BadEntry(root.dict)
        /\ Has(root.dict, "id", "bytes") /\ ~BadStride(root.dict)) =>
        ~parsed.ok /\ parsed.err = "InvalidValueEncoding"

\* a well-formed "nodes" beside a list whose second entry is 7 bytes long
C5_Witness ==
    /\ Parsing("rsp_from_parts")
    /\ Has(root.dict, "id", "bytes")
    /\ Has(root.dict, "nodes", "bytes")
    /\ Len(root.dict["nodes"].val) = 26
    /\ Has(root.dict, "values", "list")
    /\ Len(root.dict["values"].val) = 2
    /\ IsPeer(root.dict["values"].val[1])
    /\ root.dict["values"].val[2].type = "bytes"
    /\ Len(root.dict["values"].val[2].val) = 7
    /\ parsed.err = "InvalidValueEncoding"

----------------------------------------------------------------------------
(* C6 *)

\* C6: a response dictionary in which "nodes" or "values" is present and
\* malformed (an unexpected bencode type, a wrong stride, a wrong entry
\* length) is never accepted.
C6_FailFast ==
    (Parsing("rsp_from_parts")
        /\ (\/ HasOther(root.dict, "nodes", "bytes")
            \/ HasOther(root.dict, "values", "list")
            \/ BadStride(root.dict)
            \/ BadEntry(root.dict))) => ~parsed.ok

----------------------------------------------------------------------------
(* C7 *)

\* C7: encode() writes "token" exactly when the token is Some, a response
\* re-parses with the token it was built with (None as None, Some(empty) as
\* Some(empty)), and a "token" that is absent or no byte string parses as
\* None and fails no parse.
C7_TokenOptional ==
    /\ (op \in {"rsp_encode", "rsp_from_parts"} /\ wire.present) =>
           LET r == wire.msg["r"].val
           IN  /\ "token" \in DOMAIN r <=> args.token.some
               /\ "token" \in DOMAIN r => r["token"] = BenBytes(args.token.val)
    /\ Reparsed("rsp_from_parts") =>
           /\ parsed.ok
           /\ parsed.val.token.some = args.token.some
           /\ parsed.val.token.val = args.token.val
    /\ (Parsing("rsp_from_parts") /\ ~Has(root.dict, "token", "bytes")) =>
           /\ parsed.ok => parsed.val.token = None
           /\ parsed.ok <=>
                  /\ IdLen(root.dict) = 20
                  /\ Has(root.dict, "nodes", "bytes")
                         \/ Has(root.dict, "values", "list")
                  /\ ~BadStride(root.dict)
                  /\ ~BadEntry(root.dict)
    /\ (Parsing("rsp_from_parts") /\ Has(root.dict, "token", "bytes")
            /\ parsed.ok) =>
           parsed.val.token = Some(root.dict["token"].val)

\* a response built with Some(empty) and parsed back
C7_Witness ==
    /\ Reparsed("rsp_from_parts")
    /\ args.token.some
    /\ args.token.val = <<>>
    /\ parsed.ok
    /\ parsed.val.token.some

----------------------------------------------------------------------------
(* C8 *)

\* C8: encode() of a response gives t = trans_id, y = "r" and an "r"
\* dictionary holding the id always, "nodes" exactly for Nodes and Both and
\* "values" exactly for Values and Both; from_parts on that dictionary gives
\* back a value equal to the source, which encode() left as new() built it.
C8_ResponseRoundTrip ==
    /\ (op \in {"rsp_encode", "rsp_from_parts"} /\ wire.present) =>
           LET r == wire.msg["r"].val
               it == args.info_type
           IN  /\ DOMAIN wire.msg = {"t", "y", "q", "r"}
               /\ wire.msg["t"] = BenBytes(args.trans_id)
               /\ wire.msg["y"] = BenBytes(<<114>>)
               /\ wire.msg["q"] = BenBytes(GetPeersBytes)
               /\ wire.msg["r"].type = "dict"
               /\ DOMAIN r \subseteq {"id", "token", "nodes", "values"}
               /\ "id" \in DOMAIN r /\ r["id"] = BenBytes(args.node_id)
               /\ "nodes" \in DOMAIN r <=> it.kind \in {"Nodes", "Both"}
               /\ "nodes" \in DOMAIN r => r["nodes"] = BenBytes(it.nodes)
               /\ "values" \in DOMAIN r <=> it.kind \in {"Values", "Both"}
               /\ "values" \in DOMAIN r => r["values"] = BenList(it.values)
               /\ rsp = Ok([trans_id |-> args.trans_id,
                            node_id |-> args.node_id,
                            token |-> args.token, info_type |-> it])
    /\ Reparsed("rsp_from_parts") =>
           /\ parsed.ok
           /\ parsed.val = rsp.val
           /\ parsed.val.info_type = args.info_type
           /\ parsed.val.token = args.token

\* a Both of an empty node string and an empty value list, parsed back
C8_Witness ==
    /\ Reparsed("rsp_from_parts")
    /\ parsed.ok
    /\ args.info_type.kind = "Both"
    /\ args.info_type.nodes = <<>>
    /\ args.info_type.values = <<>>
    /\ parsed.val.info_type.kind = "Both"

----------------------------------------------------------------------------
(* C9 *)

\* the error of the first failing check, in the order id lookup, payload
\* shape, nodes stride, values entry, id length; "" when none fails
FirstFailure(d) ==
    IF "id" \notin DOMAIN d THEN "MissingKey"
    ELSE IF d["id"].type # "bytes" THEN "WrongType"
    ELSE IF ~Has(d, "nodes", "bytes") /\ ~Has(d, "values", "list")
        THEN "InvalidResponse"
    ELSE IF BadStride(d) THEN "InvalidNodesEncoding"
    ELSE IF BadEntry(d) THEN "InvalidValueEncoding"
    ELSE IF Len(d["id"].val) # 20 THEN "InvalidIdentifierLength"
    ELSE ""

\* C9: GetPeersResponse::from_parts returns the error of the first failing
\* check in the order id lookup, payload shape, nodes stride, values entry
\* length, id length, and succeeds when none fails.
C9_CheckOrder ==
    Parsing("rsp_from_parts") =>
        /\ parsed.ok <=> FirstFailure(root.dict) = ""
        /\ ~parsed.ok => parsed.err = FirstFailure(root.dict)

\* a wrong-length id, a bad stride and a bad entry: the stride is reported
C9_Witness ==
    /\ Parsing("rsp_from_parts")
    /\ IdLen(root.dict) = 21
    /\ BadStride(root.dict)
    /\ BadEntry(root.dict)
    /\ parsed.err = "InvalidNodesEncoding"

----------------------------------------------------------------------------
(* C10 *)

Min(a, b) == IF a < b THEN a ELSE b

\* the cursor and the values returned so far, for one iterator
CursorOk(slice, index, ret) ==
    /\ 0 <= index /\ index <= Len(slice)
    /\ index = Min(Len(ret), Len(slice))
    /\ \A i \in 1..Len(ret) :
           IF i <= Len(slice)
           THEN ret[i].some /\ ret[i].val = slice[i]
           ELSE ~ret[i].some

\* one step of one iterator: the slice is kept, and an exhausted iterator
\* keeps its index
StepOk(slice, index, slice2, index2) ==
    /\ slice2 = slice
    /\ index = Len(slice) => index2 = index

\* C10: for Files, Pieces and Paths over a slice of length n the index stays
\* in 0..n, the i-th next() (i <= n) returns the i-th element, every later
\* call returns None and keeps the index, and the slice is never changed.
C10_Cursor ==
    /\ [](/\ CursorOk(files, files_index, files_ret)
          /\ CursorOk(pieces, pieces_index, pieces_ret)
          /\ CursorOk(paths, paths_index, paths_ret))
    /\ [][/\ StepOk(files, files_index, files', files_index')
          /\ StepOk(pieces, pieces_index, pieces', pieces_index')
          /\ StepOk(paths, paths_index, paths', paths_index')]_vars

\* all three iterators over three elements, each called twice after its end
C10_Witness ==
    /\ Len(files) = 3 /\ Len(files_ret) = 5 /\ files_index = 3
    /\ Len(pieces) = 3 /\ Len(pieces_ret) = 5 /\ pieces_index = 3
    /\ Len(paths) = 3 /\ Len(paths_ret) = 5 /\ paths_index = 3
    /\ ~files_ret[5].some /\ ~pieces_ret[4].some /\ paths_ret[3].some

====
